---- MODULE Spec2Model ----
(***************************************************************************)
(* Model of generator.py: the PixelPalette class (hsv_range, rows), its    *)
(* operations add_gradient, add_shades and save_as_image, and the helper   *)
(* functions mix, mix_colors and hsv_adjust_range.                         *)
(*                                                                         *)
(* Arithmetic.  The program divides with "/" (floating point) and rounds   *)
(* with Python's round(), which rounds a tie to the even neighbour.  The   *)
(* model keeps every quotient as numerator and denominator and rounds it   *)
(* with round(num, den), half to even.  For hsv_adjust_range the operands  *)
(* are small integers, so the float quotient is a tie exactly when the     *)
(* rational is.  For mix the ratio (i+1)/(n+1) is exact in floating point  *)
(* when n+1 is a power of two, and when n+1 is odd no tie exists; these    *)
(* are the cases n+1 <= 5, which cover the bounds below and the bounds     *)
(* plus one; at n+1 = 6 a float tie can round the other way.               *)
(***************************************************************************)
EXTENDS Integers, Sequences, FiniteSets, TLC

VARIABLES hsv_range, rows, call

vars == <<hsv_range, rows, call>>

\* ------------------------------------------------------------------ bounds
MaxRows == 2
MaxSteps == 2
MaxShades == 1

\* ------------------------------------------------------------------ inputs
\* Constructor arguments: the range of the script at the bottom of the file
\* and a range with a zero channel (the constructor validates nothing).
Ranges == { <<360, 100, 100>>, <<360, 0, 100>> }

\* External colours handed to add_gradient / add_shades; the last one is a
\* tuple with only two channels.
Colors == { <<350, 100, 100>>, <<10, 100, 100>>, <<360, 19, 99>>, <<48, 19>> }

\* Base colours and shifts handed to add_shades.
BaseColors == { <<0, 0, 99>> }

Shifts == { <<-10, -10, 25>> }

StepCounts == (0 - 1)..MaxSteps

ShadeCounts == (0 - 1)..MaxShades

Filenames == { "palette.png" }

\* Inputs of the conversion on its own (specification SpecAdjust).
AdjustChannels == { 1, 2, 100, 255, 360 }

AdjustRanges == AdjustChannels \X AdjustChannels \X AdjustChannels

ChannelValues(r) == { 0, 1, r \div 2, r, r + 1 }

AdjustColors(r) == ChannelValues(r[1]) \X ChannelValues(r[2]) \X ChannelValues(r[3])

\* --------------------------------------------------------------- functions
\* Python's round(num/den) for den > 0: nearest integer, a tie to the even one.
round(num, den) ==
    LET q == num \div den
        r == num % den
    IN  IF 2 * r < den THEN q
        ELSE IF 2 * r > den THEN q + 1
        ELSE IF q % 2 = 0 THEN q ELSE q + 1

\* mix(a, b, ratio_b) with ratio_b = num/den: the numerator of the result
\* over den, a*(1 - num/den) + b*(num/den) = (a*(den-num) + b*num)/den.
mix(a, b, num, den) == a * (den - num) + b * num

mix_colors(c1, c2, num, den) ==
    << round(mix(c1[1], c2[1], num, den), den),
       round(mix(c1[2], c2[2], num, den), den),
       round(mix(c1[3], c2[3], num, den), den) >>

\* The exception hsv_adjust_range raises, channel by channel in evaluation
\* order: color[k] of a short tuple is an IndexError, a zero range channel a
\* ZeroDivisionError.  "ok" when it returns.
AdjustErrorFrom(color, current_range, k) ==
    IF Len(color) < k THEN "IndexError"
    ELSE IF current_range[k] = 0 THEN "ZeroDivisionError"
    ELSE "ok"

AdjustError(color, current_range) ==
    IF AdjustErrorFrom(color, current_range, 1) # "ok"
        THEN AdjustErrorFrom(color, current_range, 1)
    ELSE IF AdjustErrorFrom(color, current_range, 2) # "ok"
        THEN AdjustErrorFrom(color, current_range, 2)
    ELSE AdjustErrorFrom(color, current_range, 3)

\* Variant: scales to 256 instead of 255.
hsv_adjust_range256(color, current_range) ==
    << round(256 * color[1], current_range[1]),
       round(256 * color[2], current_range[2]),
       round(256 * color[3], current_range[3]) >>

hsv_adjust_range(color, current_range) ==
    << round(255 * color[1], current_range[1]),
       round(255 * color[2], current_range[2]),
       round(255 * color[3], current_range[3]) >>

\* Variant: the hue_ascending flag is ignored.
StartColorAscending(color1, hue_ascending) == color1

\* Lines 64-65: the colour the interpolation starts from.
StartColor(color1, hue_ascending) ==
    IF ~hue_ascending THEN << color1[1] + 255, color1[2], color1[3] >>
    ELSE color1

\* Variant: the hue is reduced modulo 256.
WrapHue256(c) == << c[1] % 256, c[2], c[3] >>

\* Variant: every channel is reduced modulo 255.
WrapAll(c) == << c[1] % 255, c[2] % 255, c[3] % 255 >>

\* Line 69: only the hue of an interpolated colour is reduced.
WrapHue(c) == << c[1] % 255, c[2], c[3] >>

\* Variant: the row starts with the colour the interpolation starts from.
GradientRowFromStart(color1, color2, number_in_between, hue_ascending) ==
    LET start == StartColor(color1, hue_ascending)
        inner == [ k \in 1..number_in_between |->
                     WrapHue(mix_colors(start, color2, k, number_in_between + 1)) ]
    IN  <<start>> \o inner \o <<color2>>

\* Lines 62-71: the row add_gradient builds from the converted endpoints.
GradientRow(color1, color2, number_in_between, hue_ascending) ==
    LET start == StartColor(color1, hue_ascending)
        inner == [ k \in 1..number_in_between |->
                     WrapHue(mix_colors(start, color2, k, number_in_between + 1)) ]
    IN  <<color1>> \o inner \o <<color2>>

Clamp(x) == IF x < 0 THEN 0 ELSE IF x > 255 THEN 255 ELSE x

\* Variant: every channel is clamped to 0..255.
ShadesRowClamped(base_color, shift, number_down, number_up) ==
    [ k \in 1..(number_down + number_up + 1) |->
        LET i == k - 1 - number_down
        IN  << Clamp(base_color[1] + shift[1] * i),
               Clamp(base_color[2] + shift[2] * i),
               Clamp(base_color[3] + shift[3] * i) >> ]

\* Lines 86-90: the row add_shades builds, i over range(-number_down, number_up+1).
ShadesRow(base_color, shift, number_down, number_up) ==
    [ k \in 1..(number_down + number_up + 1) |->
        LET i == k - 1 - number_down
        IN  << base_color[1] + shift[1] * i,
               base_color[2] + shift[2] * i,
               base_color[3] + shift[3] * i >> ]

Max(a, b) == IF a > b THEN a ELSE b

\* Lines 94-96.
RECURSIVE Width(_)
Width(rs) == IF rs = <<>> THEN 0 ELSE Max(Len(Head(rs)), Width(Tail(rs)))

\* Variant: a short row is not filled up.
PadRowUnfilled(row, width) == row

\* Lines 101-102: one row of the grid.
PadRow(row, width) ==
    [ i \in 1..width |-> IF i <= Len(row) THEN row[i] ELSE <<0, 0, 0>> ]

\* Lines 99-102.
RECURSIVE Pixels(_, _)
Pixels(rs, width) ==
    IF rs = <<>> THEN <<>> ELSE PadRow(Head(rs), width) \o Pixels(Tail(rs), width)

\* ----------------------------------------------------------------- actions
\* call is the observer's record of the most recent call: for a call that
\* returned, its arguments (and for save_as_image what the image writer was
\* handed); for an add call that raised, the exception only.
Init ==
    /\ hsv_range \in Ranges
    /\ rows = <<>>
    /\ call = [op |-> "__init__"]

\* Variant: the row is appended to rows as soon as color1 is converted, so a
\* color2 that cannot be converted leaves a one-colour row behind.
add_gradient_early_append(color1, color2, number_in_between, hue_ascending) ==
    /\ Len(rows) < MaxRows
    /\ LET e1 == AdjustError(color1, hsv_range)
           e2 == AdjustError(color2, hsv_range)
       IN  IF e1 # "ok"
             THEN /\ rows' = rows
                  /\ call' = [op |-> "add_gradient", outcome |-> e1]
           ELSE IF e2 # "ok"
             THEN /\ rows' = Append(rows, << hsv_adjust_range(color1, hsv_range) >>)
                  /\ call' = [op |-> "add_gradient", outcome |-> e2]
           ELSE   /\ rows' = Append(rows,
                        GradientRow(hsv_adjust_range(color1, hsv_range),
                                    hsv_adjust_range(color2, hsv_range),
                                    number_in_between, hue_ascending))
                  /\ call' = [op |-> "add_gradient", outcome |-> "ok",
                              color1 |-> color1, color2 |-> color2,
                              number_in_between |-> number_in_between,
                              hue_ascending |-> hue_ascending]
    /\ UNCHANGED hsv_range

add_gradient(color1, color2, number_in_between, hue_ascending) ==
    /\ Len(rows) < MaxRows
    /\ LET e1 == AdjustError(color1, hsv_range)
           e2 == AdjustError(color2, hsv_range)
           outcome == IF e1 # "ok" THEN e1 ELSE e2
       IN  IF outcome = "ok"
             THEN /\ rows' = Append(rows,
                        GradientRow(hsv_adjust_range(color1, hsv_range),
                                    hsv_adjust_range(color2, hsv_range),
                                    number_in_between, hue_ascending))
                  /\ call' = [op |-> "add_gradient", outcome |-> "ok",
                              color1 |-> color1, color2 |-> color2,
                              number_in_between |-> number_in_between,
                              hue_ascending |-> hue_ascending]
             ELSE /\ rows' = rows
                  /\ call' = [op |-> "add_gradient", outcome |-> outcome]
    /\ UNCHANGED hsv_range

add_shades(base_color, shift, number_down, number_up) ==
    /\ Len(rows) < MaxRows
    /\ LET e1 == AdjustError(base_color, hsv_range)
           e2 == AdjustError(shift, hsv_range)
           outcome == IF e1 # "ok" THEN e1 ELSE e2
       IN  IF outcome = "ok"
             THEN /\ rows' = Append(rows,
                        ShadesRow(hsv_adjust_range(base_color, hsv_range),
                                  hsv_adjust_range(shift, hsv_range),
                                  number_down, number_up))
                  /\ call' = [op |-> "add_shades", outcome |-> "ok",
                              base_color |-> base_color, shift |-> shift,
                              number_down |-> number_down, number_up |-> number_up]
             ELSE /\ rows' = rows
                  /\ call' = [op |-> "add_shades", outcome |-> outcome]
    /\ UNCHANGED hsv_range

\* Variant: the rows themselves are filled up to the width.
save_as_image_in_place(filename, written) ==
    /\ LET width == Width(rows)
       IN  /\ call' = [op |-> "save_as_image", filename |-> filename,
                       size |-> <<width, Len(rows)>>,
                       pixels |-> Pixels(rows, width),
                       outcome |-> IF written THEN "ok" ELSE "ExportError"]
           /\ rows' = [ r \in 1..Len(rows) |-> PadRow(rows[r], width) ]
    /\ UNCHANGED hsv_range

\* The image writer (Image.new / putdata / convert / save) is outside the
\* program: it receives the size and the pixels and either writes the file or
\* raises.
save_as_image(filename, written) ==
    /\ LET width == Width(rows)
       IN  call' = [op |-> "save_as_image", filename |-> filename,
                    size |-> <<width, Len(rows)>>,
                    pixels |-> Pixels(rows, width),
                    outcome |-> IF written THEN "ok" ELSE "ExportError"]
    /\ UNCHANGED <<rows, hsv_range>>

Next ==
    \/ \E c1 \in Colors, c2 \in Colors, n \in StepCounts, asc \in BOOLEAN :
          add_gradient(c1, c2, n, asc)
    \/ \E b \in BaseColors, s \in Shifts, d \in ShadeCounts, u \in ShadeCounts :
          add_shades(b, s, d, u)
    \/ \E f \in Filenames, w \in BOOLEAN : save_as_image(f, w)

Spec == Init /\ [][Next]_vars

\* The conversion on its own, over a wider set of ranges and colours.
InitAdjust ==
    /\ hsv_range \in AdjustRanges
    /\ rows = <<>>
    /\ call = [op |-> "__init__"]

adjust(color) ==
    /\ call' = [op |-> "hsv_adjust_range", color |-> color,
                result |-> hsv_adjust_range(color, hsv_range)]
    /\ UNCHANGED <<rows, hsv_range>>

NextAdjust == \E c \in AdjustColors(hsv_range) : adjust(c)

SpecAdjust == InitAdjust /\ [][NextAdjust]_vars

\* ------------------------------------------------------------------ claims
AddOps == { "add_gradient", "add_shades" }

Returned(op) == call.op = op /\ call.outcome = "ok"

LastRow == rows[Len(rows)]

Canonical(c) == hsv_adjust_range(c, hsv_range)

Abs(x) == IF x < 0 THEN 0 - x ELSE x

\* v is num/den rounded to the nearest integer, a tie to the even one.
IsRounded(v, num, den) ==
    /\ 2 * Abs(v * den - num) <= den
    /\ 2 * Abs(v * den - num) = den => v % 2 = 0

ShortArc == (248..254) \cup (0..7)

\* C1: a returned add_gradient with number_in_between = n >= 0 leaves as last
\* row a row of length n+2 whose first element is the converted color1 and
\* whose last element is the converted color2; for n = 0 the row is exactly
\* these two colours.
GradientEndpoints ==
    (Returned("add_gradient") /\ call.number_in_between >= 0) =>
        /\ Len(LastRow) = call.number_in_between + 2
        /\ LastRow[1] = Canonical(call.color1)
        /\ LastRow[Len(LastRow)] = Canonical(call.color2)
        /\ call.number_in_between = 0 =>
              LastRow = << Canonical(call.color1), Canonical(call.color2) >>

GradientEndpointsWitness ==
    /\ Returned("add_gradient")
    /\ hsv_range = <<360, 100, 100>>
    /\ call.color1 = <<350, 100, 100>>
    /\ call.number_in_between = 2
    /\ ~call.hue_ascending
    /\ Len(LastRow) = 4
    /\ LastRow[1] = <<248, 255, 255>>
    /\ LastRow[4] = Canonical(call.color2)

\* C2: a returned add_shades with number_down = d >= 0 and number_up = u >= 0
\* leaves as last row a row of length d+u+1 whose element at 0-based index d
\* is the converted base colour and whose consecutive elements differ
\* componentwise by exactly the converted shift; nothing is clamped or wrapped.
ShadesRowShape ==
    (Returned("add_shades") /\ call.number_down >= 0 /\ call.number_up >= 0) =>
        /\ Len(LastRow) = call.number_down + call.number_up + 1
        /\ LastRow[call.number_down + 1] = Canonical(call.base_color)
        /\ \A k \in 1..(Len(LastRow) - 1) : \A ch \in 1..3 :
              LastRow[k + 1][ch] - LastRow[k][ch] = Canonical(call.shift)[ch]

ShadesRowShapeWitness ==
    /\ Returned("add_shades")
    /\ call.number_down = 1
    /\ call.number_up = 1
    /\ Len(LastRow) = 3
    /\ \E ch \in 1..3 : LastRow[3][ch] > 255
    /\ \E ch \in 1..3 : LastRow[3][ch] < 0

\* C3: save_as_image hands the image writer a size (width, height) with
\* height the number of rows and width the greatest row length (0 without
\* rows), and width*height pixels in row-major order: the pixel of row r,
\* column i is rows[r][i] when the row has it and (0,0,0) otherwise.
ExportGrid ==
    call.op = "save_as_image" =>
        LET width == call.size[1]
            height == call.size[2]
        IN  /\ height = Len(rows)
            /\ \A r \in 1..Len(rows) : Len(rows[r]) <= width
            /\ IF rows = <<>> THEN width = 0
                              ELSE \E r \in 1..Len(rows) : Len(rows[r]) = width
            /\ Len(call.pixels) = width * height
            /\ \A r \in 1..height : \A i \in 1..width :
                  call.pixels[(r - 1) * width + i] =
                      IF i <= Len(rows[r]) THEN rows[r][i] ELSE <<0, 0, 0>>

ExportGridWitness ==
    /\ call.op = "save_as_image"
    /\ Len(rows) = 2
    /\ Len(rows[1]) = 4
    /\ Len(rows[2]) = 2
    /\ call.size = <<4, 2>>
    /\ call.pixels[6] = rows[2][2]
    /\ call.pixels[6] # <<0, 0, 0>>
    /\ call.pixels[7] = <<0, 0, 0>>

\* C4: with every range channel > 0 and every colour channel between 0 and
\* its range channel, each converted channel is an integer in 0..255.
AdjustInRange ==
    ( /\ call.op = "hsv_adjust_range"
      /\ \A ch \in 1..3 : hsv_range[ch] > 0
      /\ \A ch \in 1..3 : 0 <= call.color[ch] /\ call.color[ch] <= hsv_range[ch] ) =>
        \A ch \in 1..3 : call.result[ch] \in 0..255

AdjustInRangeWitness ==
    /\ call.op = "hsv_adjust_range"
    /\ hsv_range = <<2, 100, 360>>
    /\ call.color = <<1, 100, 0>>
    /\ call.result = <<128, 255, 0>>

\* C5 as stated: with range (360,100,100), add_gradient((350,s,v), (10,s,v),
\* n >= 1, hue_ascending = False) gives interior hues on the short arc through
\* 0, each in 248..254 or 0..7.
HueShortArcFrom350 ==
    ( /\ Returned("add_gradient")
      /\ hsv_range = <<360, 100, 100>>
      /\ call.color1[1] = 350 /\ call.color2[1] = 10
      /\ call.color1[2] = call.color2[2] /\ call.color1[3] = call.color2[3]
      /\ call.number_in_between >= 1
      /\ ~call.hue_ascending ) =>
        \A k \in 2..(Len(LastRow) - 1) : LastRow[k][1] \in ShortArc

\* C5 amended: with range (360,100,100), add_gradient((10,s,v), (350,s,v),
\* n >= 1, hue_ascending = False) gives interior hues on the short arc through
\* 0 between hue 7 and hue 248, each in 248..254 or 0..7.
HueShortArcFrom10 ==
    ( /\ Returned("add_gradient")
      /\ hsv_range = <<360, 100, 100>>
      /\ call.color1[1] = 10 /\ call.color2[1] = 350
      /\ call.color1[2] = call.color2[2] /\ call.color1[3] = call.color2[3]
      /\ call.number_in_between >= 1
      /\ ~call.hue_ascending ) =>
        \A k \in 2..(Len(LastRow) - 1) : LastRow[k][1] \in ShortArc

HueShortArcFrom10Witness ==
    /\ Returned("add_gradient")
    /\ hsv_range = <<360, 100, 100>>
    /\ call.color1 = <<10, 100, 100>>
    /\ call.color2 = <<350, 100, 100>>
    /\ call.number_in_between = 2
    /\ ~call.hue_ascending
    /\ LastRow[2][1] = 2
    /\ LastRow[3][1] = 253

\* C6: every add_gradient / add_shades call that returns appends exactly one
\* row at the end and leaves the earlier rows as they were and where they
\* were; every such call that raises leaves rows as it was.
RowsAllOrNothing ==
    [][ call'.op \in AddOps =>
          IF call'.outcome = "ok"
            THEN /\ Len(rows') = Len(rows) + 1
                 /\ SubSeq(rows', 1, Len(rows)) = rows
            ELSE rows' = rows ]_vars

RowsAllOrNothingWitness ==
    /\ call.op = "add_gradient"
    /\ call.outcome = "IndexError"
    /\ Len(rows) = 1

\* An add_gradient call that returns and appends a row.
AppendAccepted ==
    \E c1 \in Colors, c2 \in Colors, n \in StepCounts, asc \in BOOLEAN :
        add_gradient(c1, c2, n, asc) /\ call'.outcome = "ok" /\ Len(rows') = Len(rows) + 1

\* C7: save_as_image leaves rows and hsv_range as they were, whether the
\* file is written or not; a second save_as_image right after one hands the
\* writer the same size and pixels; an add call that returns right after
\* a save_as_image makes the grid one row taller than the one handed over;
\* and after a save_as_image such an add call is possible (below the bound
\* on the number of rows, with a range that has no zero channel).
ExportStep ==
    [][ /\ call'.op = "save_as_image" =>
              /\ rows' = rows
              /\ hsv_range' = hsv_range
              /\ call.op = "save_as_image" =>
                    /\ call'.size = call.size
                    /\ call'.pixels = call.pixels
        /\ (call.op = "save_as_image" /\ call'.op \in AddOps /\ call'.outcome = "ok") =>
              Len(rows') = call.size[2] + 1 ]_vars

ExportReadOnly ==
    /\ ExportStep
    /\ []( ( /\ call.op = "save_as_image"
             /\ Len(rows) < MaxRows
             /\ \A ch \in 1..3 : hsv_range[ch] # 0 ) => ENABLED AppendAccepted )

ExportReadOnlyWitness ==
    /\ call.op = "save_as_image"
    /\ call.outcome = "ExportError"
    /\ Len(rows) = 1
    /\ ENABLED AppendAccepted

\* C8 as stated: no add_gradient call with number_in_between < 0 and no
\* add_shades call with number_down < 0 or number_up < 0 returns and appends
\* a row; such a call raises.
NegativeCountRejected ==
    /\ Returned("add_gradient") => call.number_in_between >= 0
    /\ Returned("add_shades") => (call.number_down >= 0 /\ call.number_up >= 0)

\* C9 as stated: in a row add_gradient built with hue_ascending = False, every
\* hue, the two endpoints included, lies in 0..254.
AllHuesReduced ==
    (Returned("add_gradient") /\ call.number_in_between >= 0 /\ ~call.hue_ascending) =>
        \A k \in 1..Len(LastRow) : LastRow[k][1] \in 0..254

\* C9 amended: in a row add_gradient built with hue_ascending = False, every
\* interpolated interior hue lies in 0..254; the two endpoint hues are the
\* converted hues of color1 and color2, not reduced.
InteriorHuesReduced ==
    (Returned("add_gradient") /\ ~call.hue_ascending) =>
        /\ \A k \in 2..(Len(LastRow) - 1) : LastRow[k][1] \in 0..254
        /\ LastRow[1][1] = Canonical(call.color1)[1]
        /\ LastRow[Len(LastRow)][1] = Canonical(call.color2)[1]

InteriorHuesReducedWitness ==
    /\ Returned("add_gradient")
    /\ ~call.hue_ascending
    /\ call.number_in_between = 1
    /\ LastRow[1][1] = 248
    /\ LastRow[2][1] = 0
    /\ LastRow[3][1] = 7

\* C10: in a row add_gradient built, the saturation and the value of the
\* interior colour at position i are c1*(1-t) + c2*t rounded, t = (i+1)/(n+1),
\* not reduced modulo 255, and along the whole row each of the two channels
\* goes monotonically (not strictly) from color1's to color2's.
SatValMixed ==
    Returned("add_gradient") =>
        LET c1 == Canonical(call.color1)
            c2 == Canonical(call.color2)
            n == call.number_in_between
        IN  \A ch \in 2..3 :
              /\ \A k \in 1..n :
                    IsRounded(LastRow[k + 1][ch],
                              c1[ch] * (n + 1 - k) + c2[ch] * k, n + 1)
              /\ \A k \in 1..(Len(LastRow) - 1) :
                    /\ c1[ch] <= c2[ch] => LastRow[k][ch] <= LastRow[k + 1][ch]
                    /\ c1[ch] >= c2[ch] => LastRow[k][ch] >= LastRow[k + 1][ch]

SatValMixedWitness ==
    /\ Returned("add_gradient")
    /\ call.color1 = <<360, 19, 99>>
    /\ call.color2 = <<10, 100, 100>>
    /\ call.number_in_between = 1
    /\ LastRow[1][2] = 48
    /\ LastRow[2][2] = 152
    /\ LastRow[3][2] = 255

====
